---- MODULE Spec2Model ----
(***************************************************************************)
(* The five table transforms of src/task2.py: calculate_distance_matrix,  *)
(* unroll_distance_matrix, find_ids_within_ten_percentage_threshold,       *)
(* calculate_toll_rate and calculate_time_based_toll_rates.                *)
(*                                                                         *)
(* A data frame is a sequence of rows, a row a function from column names  *)
(* to cells.  Numeric cells are exact decimals: the toll tables hold them  *)
(* as integers in units of 1/Unit, so that the products with 0.8, 1.2 ...  *)
(* are exact (binary floating-point rounding is abstracted).               *)
(***************************************************************************)
EXTENDS Integers, Sequences, FiniteSets, TLC

VARIABLES
    pc,               \* which call has returned last
    df,               \* segment records handed to calculate_distance_matrix
    distance_matrix,  \* value returned by calculate_distance_matrix
    unrolled_df,      \* value returned by unroll_distance_matrix (or passed by the caller)
    reference_id,     \* argument of find_ids_within_ten_percentage_threshold
    result_df,        \* value returned by find_ids_within_ten_percentage_threshold
    toll_df,          \* the table calculate_toll_rate and calculate_time_based_toll_rates return
    raised            \* the exception that left the last call, "none" when it returned

vars == <<pc, df, distance_matrix, unrolled_df, reference_id, result_df, toll_df, raised>>

----------------------------------------------------------------------------
(* Bounds of the inputs *)

MaxRecs == 2    \* segment records handed to calculate_distance_matrix
MaxTbl == 3     \* rows of an unrolled table handed over by the caller
MaxRows == 1    \* rows of a caller's table that carries the time columns

\* one distance unit; every distance and toll cell is a multiple of 1/Unit
Unit == 10 * 10 * 10 * 10

Ids == {1, 2, 3}
SegDistances == {-Unit, 0, 5 * Unit, 10 * Unit}
TblDistances == {9 * Unit, 10 * Unit, 11 * Unit, 12 * Unit}
TollDistances == {0, 10 * Unit}

T(h, m, s) == h * 3600 + m * 60 + s
Times == {T(9, 0, 0), T(9, 30, 0), T(10, 0, 0), T(12, 0, 0), T(18, 0, 0), T(20, 0, 0)}
DayPairs == {<<"Monday", "Monday">>, <<"Friday", "Saturday">>,
             <<"Saturday", "Saturday">>, <<"Sunday", "Monday">>}

SeqsUpTo(S, n) == UNION {[1..k -> S] : k \in 1..n}

SegmentRecords == [id_start : Ids, id_end : Ids, distance : SegDistances]
TableRows == {r \in [id_start : {1, 2}, id_end : {1, 2}, distance : TblDistances] :
                 r.id_start # r.id_end}
TimedRows == {[id_start |-> 1, id_end |-> 2, distance |-> d,
               start_day |-> dp[1], start_time |-> st,
               end_day |-> dp[2], end_time |-> et] :
                 d \in TollDistances, dp \in DayPairs, st \in Times, et \in Times}

----------------------------------------------------------------------------
(* Helpers *)

RECURSIVE Sorted(_)
Sorted(S) ==
    IF S = {} THEN <<>>
    ELSE LET m == CHOOSE x \in S : \A y \in S : x <= y
         IN <<m>> \o Sorted(S \ {m})

IndexOf(seq, x) == CHOOSE k \in 1..Len(seq) : seq[k] = x

Min(a, b) == IF a <= b THEN a ELSE b

\* x times a factor given in tenths (0.8 is 8); exact on multiples of 10
Mul(x, tenths) == (x * tenths) \div 10

NoMatrix == [index |-> {}, columns |-> {}, values |-> <<>>]

----------------------------------------------------------------------------
(* calculate_distance_matrix *)

RECURSIVE SumDistance(_, _, _)
SumDistance(recs, a, b) ==
    IF recs = <<>> THEN 0
    ELSE (IF Head(recs).id_start = a /\ Head(recs).id_end = b
          THEN Head(recs).distance ELSE 0) + SumDistance(Tail(recs), a, b)

\* df.pivot_table(index='id_start', columns='id_end', values='distance',
\*                aggfunc='sum', fill_value=0)
pivot_table(recs) ==
    LET idx == {recs[i].id_start : i \in DOMAIN recs}
        cols == {recs[i].id_end : i \in DOMAIN recs}
    IN [index |-> idx, columns |-> cols,
        values |-> [p \in idx \X cols |-> SumDistance(recs, p[1], p[2])]]

\* distance_matrix.values.diagonal(): by position, min(rows, columns) long
diagonal(m) ==
    LET r == Sorted(m.index)
        c == Sorted(m.columns)
    IN [k \in 1..Min(Len(r), Len(c)) |-> m.values[<<r[k], c[k]>>]]

\* distance_matrix + distance_matrix.T: labels are the union of both axes; a
\* cell has a number only where both operands have the label pair, the others
\* are NaN (here: outside the function's domain)
plus_transpose(m) ==
    LET both == m.index \cap m.columns
    IN [index |-> m.index \cup m.columns, columns |-> m.index \cup m.columns,
        values |-> [p \in both \X both |-> m.values[p] + m.values[<<p[2], p[1]>>]]]

\* The subtraction of the 1-d array 2 * diagonal broadcasts it along the
\* columns, by position, and raises ValueError when its length is not the
\* number of columns.
calculate_distance_matrix(recs) ==
    LET P == pivot_table(recs)
        S == plus_transpose(P)
        d == diagonal(P)
        c == Sorted(S.columns)
    IN IF Len(d) # Len(c)
       THEN [raised |-> "ValueError", matrix |-> NoMatrix]
       ELSE [raised |-> "none",
             matrix |-> [index |-> S.index, columns |-> S.columns,
                         values |-> [p \in S.index \X S.columns |->
                                        S.values[p] - 2 * d[IndexOf(c, p[2])]]]]

----------------------------------------------------------------------------
(* unroll_distance_matrix *)

\* df.stack().reset_index(): one row per cell, row by row in index order
stack(m) ==
    LET r == Sorted(m.index)
        c == Sorted(m.columns)
        n == Len(c)
    IN [k \in 1..(Len(r) * n) |->
           LET a == r[((k - 1) \div n) + 1]
               b == c[((k - 1) % n) + 1]
           IN [id_start |-> a, id_end |-> b, distance |-> m.values[<<a, b>>]]]

unroll_distance_matrix(m) ==
    LET NotSelf(row) == row.id_start # row.id_end
    IN SelectSeq(stack(m), NotSelf)

----------------------------------------------------------------------------
(* find_ids_within_ten_percentage_threshold *)

RECURSIVE SumColumn(_)
SumColumn(rows) ==
    IF rows = <<>> THEN 0 ELSE Head(rows).distance + SumColumn(Tail(rows))

\* within_threshold with the upper bound exclusive
within_threshold_exclusive(distance, total, count) ==
    /\ 10 * distance * count >= 9 * total
    /\ 10 * distance * count < 11 * total

\* threshold_min <= distance <= threshold_max with threshold_min = 0.9 * mean,
\* threshold_max = 1.1 * mean and mean = total / count, count > 0
within_threshold(distance, total, count) ==
    /\ 10 * distance * count >= 9 * total
    /\ 10 * distance * count <= 11 * total

\* The mean of no rows is NaN, both thresholds are NaN, every comparison is
\* False: the function returns the empty table and raises nothing.
find_ids_within_ten_percentage_threshold(rows, ref) ==
    LET IsRef(row) == row.id_start = ref
        refRows == SelectSeq(rows, IsRef)
        total == SumColumn(refRows)
        count == Len(refRows)
        Keep(row) == within_threshold(row.distance, total, count)
    IN IF count = 0 THEN <<>> ELSE SelectSeq(rows, Keep)

----------------------------------------------------------------------------
(* calculate_toll_rate *)

VehicleTypes == {"moto", "car", "rv", "bus", "truck"}

\* rate_coefficients with rv given the coefficient of car
rate_coefficients_rv_as_car == [moto |-> 8, car |-> 12, rv |-> 12, bus |-> 22, truck |-> 36]

\* in tenths
rate_coefficients == [moto |-> 8, car |-> 12, rv |-> 15, bus |-> 22, truck |-> 36]

calculate_toll_rate(rows) ==
    [i \in DOMAIN rows |->
        [c \in DOMAIN rows[i] \cup VehicleTypes |->
            IF c \in VehicleTypes
            THEN Mul(rows[i].distance, rate_coefficients[c])
            ELSE rows[i][c]]]

----------------------------------------------------------------------------
(* calculate_time_based_toll_rates *)

\* factors in tenths
time_ranges ==
    << [start |-> T(0, 0, 0),  end |-> T(10, 0, 0),   weekday_factor |-> 8,  weekend_factor |-> 7],
       [start |-> T(10, 0, 0), end |-> T(18, 0, 0),   weekday_factor |-> 12, weekend_factor |-> 7],
       [start |-> T(18, 0, 0), end |-> T(23, 59, 59), weekday_factor |-> 8,  weekend_factor |-> 7] >>

mask(row, time_range) ==
    row.start_time >= time_range.start /\ row.end_time <= time_range.end

is_weekend(row) == row.start_day \in {"Saturday", "Sunday"}

\* one pass of the loop body over the table
apply_time_range(rows, time_range) ==
    [i \in DOMAIN rows |->
        IF mask(rows[i], time_range)
        THEN [rows[i] EXCEPT !.distance =
                 Mul(@, IF is_weekend(rows[i]) THEN time_range.weekend_factor
                        ELSE time_range.weekday_factor)]
        ELSE rows[i]]

RECURSIVE apply_time_ranges(_, _)
apply_time_ranges(rows, k) ==
    IF k = 0 THEN rows
    ELSE apply_time_range(apply_time_ranges(rows, k - 1), time_ranges[k])

calculate_time_based_toll_rates(rows) == apply_time_ranges(rows, Len(time_ranges))

----------------------------------------------------------------------------
(* The calls *)

\* df['start_time'] raises KeyError on a table without that column
has_time_columns(rows) ==
    rows # <<>> /\ {"start_time", "end_time", "start_day"} \subseteq DOMAIN rows[1]

Init ==
    /\ distance_matrix = NoMatrix
    /\ reference_id = 0
    /\ result_df = <<>>
    /\ toll_df = <<>>
    /\ raised = "none"
    /\ \/ /\ pc = "start"
          /\ df \in SeqsUpTo(SegmentRecords, MaxRecs)
          /\ unrolled_df = <<>>
       \/ /\ pc = "unrolled"
          /\ df = <<>>
          /\ unrolled_df \in SeqsUpTo(TableRows, MaxTbl) \cup SeqsUpTo(TimedRows, MaxRows)

CalculateDistanceMatrix ==
    /\ pc = "start"
    /\ LET res == calculate_distance_matrix(df)
       IN /\ raised' = res.raised
          /\ distance_matrix' = res.matrix
          /\ pc' = IF res.raised = "none" THEN "matrix" ELSE "raised"
    /\ UNCHANGED <<df, unrolled_df, reference_id, result_df, toll_df>>

UnrollDistanceMatrix ==
    /\ pc = "matrix"
    /\ unrolled_df' = unroll_distance_matrix(distance_matrix)
    /\ pc' = "unrolled"
    /\ UNCHANGED <<df, distance_matrix, reference_id, result_df, toll_df, raised>>

FindIdsWithinTenPercentageThreshold ==
    /\ pc = "unrolled"
    /\ \E ref \in Ids :
          /\ reference_id' = ref
          /\ result_df' = find_ids_within_ten_percentage_threshold(unrolled_df, ref)
    /\ pc' = "filtered"
    /\ UNCHANGED <<df, distance_matrix, unrolled_df, toll_df, raised>>

CalculateTollRate ==
    /\ pc = "unrolled"
    /\ toll_df' = calculate_toll_rate(unrolled_df)
    /\ pc' = "tolled"
    /\ UNCHANGED <<df, distance_matrix, unrolled_df, reference_id, result_df, raised>>

CalculateTimeBasedTollRates ==
    /\ pc = "tolled"
    /\ IF has_time_columns(toll_df)
       THEN /\ toll_df' = calculate_time_based_toll_rates(toll_df)
            /\ pc' = "timed"
            /\ UNCHANGED raised
       ELSE /\ raised' = "KeyError"
            /\ pc' = "raised"
            /\ UNCHANGED toll_df
    /\ UNCHANGED <<df, distance_matrix, unrolled_df, reference_id, result_df>>

Next ==
    \/ CalculateDistanceMatrix
    \/ UnrollDistanceMatrix
    \/ FindIdsWithinTenPercentageThreshold
    \/ CalculateTollRate
    \/ CalculateTimeBasedTollRates

Spec == Init /\ [][Next]_vars

----------------------------------------------------------------------------
(* Properties *)

AllIds == {df[i].id_start : i \in DOMAIN df} \cup {df[i].id_end : i \in DOMAIN df}
ValidInput == \A i \in DOMAIN df : df[i].distance >= 0
Observed(a, b) == SumDistance(df, a, b)

\* C1: for every valid input the matrix calculate_distance_matrix returns is
\* symmetric, M[a][b] = M[b][a], and has a zero diagonal, M[a][a] = 0.
C1_SymmetricZeroDiagonal ==
    (pc = "matrix" /\ ValidInput) =>
        /\ distance_matrix.index = distance_matrix.columns
        /\ \A a \in distance_matrix.index : distance_matrix.values[<<a, a>>] = 0
        /\ \A a \in distance_matrix.index : \A b \in distance_matrix.index :
              distance_matrix.values[<<a, b>>] = distance_matrix.values[<<b, a>>]

\* C2: calculate_distance_matrix returns a square matrix indexed on both axes
\* by the union of the ids seen as id_start or id_end, and for distinct ids
\* M[a][b] is the sum of the (a,b) records plus the sum of the (b,a) records.
C2_UnionIndexedObservedSums ==
    (pc \in {"matrix", "raised"} /\ ValidInput) =>
        /\ raised = "none"
        /\ distance_matrix.index = AllIds
        /\ distance_matrix.columns = AllIds
        /\ \A a \in AllIds : \A b \in AllIds \ {a} :
              distance_matrix.values[<<a, b>>] = Observed(a, b) + Observed(b, a)

\* C3: with a negative distance in the input calculate_distance_matrix fails
\* with ValidationError and returns no matrix.
C3_NegativeDistanceRejected ==
    (pc \in {"matrix", "raised"} /\ ~ValidInput) =>
        (raised = "ValidationError" /\ distance_matrix = NoMatrix)

\* C4: for valid records over N ids, unrolling the built matrix yields
\* exactly N*(N-1) rows, one row (a, b, M[a][b]) per ordered pair of distinct
\* ids and no row with id_start = id_end.
C4_UnrollAllOrderedPairs ==
    (pc \in {"unrolled", "raised"} /\ df # <<>> /\ ValidInput) =>
        LET N == Cardinality(AllIds)
        IN /\ Len(unrolled_df) = N * (N - 1)
           /\ \A i \in DOMAIN unrolled_df : unrolled_df[i].id_start # unrolled_df[i].id_end
           /\ \A a \in AllIds : \A b \in AllIds \ {a} :
                 \E i \in DOMAIN unrolled_df :
                    /\ unrolled_df[i] = [id_start |-> a, id_end |-> b,
                                         distance |-> distance_matrix.values[<<a, b>>]]
                    /\ \A j \in DOMAIN unrolled_df :
                          (unrolled_df[j].id_start = a /\ unrolled_df[j].id_end = b) => j = i

RefRows == {i \in DOMAIN unrolled_df : unrolled_df[i].id_start = reference_id}

RECURSIVE DistanceOver(_)
DistanceOver(S) ==
    IF S = {} THEN 0
    ELSE LET i == CHOOSE x \in S : TRUE
         IN unrolled_df[i].distance + DistanceOver(S \ {i})

\* 0.9 * ref_avg <= d <= 1.1 * ref_avg, ref_avg = DistanceOver(RefRows) / |RefRows|
InBand(d) ==
    /\ 9 * DistanceOver(RefRows) <= 10 * d * Cardinality(RefRows)
    /\ 10 * d * Cardinality(RefRows) <= 11 * DistanceOver(RefRows)

InBandRows == {i \in DOMAIN unrolled_df : InBand(unrolled_df[i].distance)}

C6_AbsentReferenceRaises ==
    (pc = "filtered" /\ RefRows = {}) => raised = "NotFoundError"

\* C7: after calculate_toll_rate every row has moto = 0.8*distance,
\* car = 1.2*distance, rv = 1.5*distance, bus = 2.2*distance and
\* truck = 3.6*distance of its own distance; the row's other columns, the
\* number of rows and their order are unchanged.
C7_TollColumns ==
    pc = "tolled" =>
        /\ Len(toll_df) = Len(unrolled_df)
        /\ \A i \in DOMAIN unrolled_df :
              /\ DOMAIN toll_df[i] = DOMAIN unrolled_df[i] \cup VehicleTypes
              /\ \A c \in DOMAIN unrolled_df[i] : toll_df[i][c] = unrolled_df[i][c]
              /\ 10 * toll_df[i].moto = 8 * unrolled_df[i].distance
              /\ 10 * toll_df[i].car = 12 * unrolled_df[i].distance
              /\ 10 * toll_df[i].rv = 15 * unrolled_df[i].distance
              /\ 10 * toll_df[i].bus = 22 * unrolled_df[i].distance
              /\ 10 * toll_df[i].truck = 36 * unrolled_df[i].distance

\* C7 witness: a table of several rows with different distances has been
\* annotated, one of them of distance 10 with car = 12.0.
C7_Witness ==
    /\ pc = "tolled"
    /\ Len(toll_df) >= 2
    /\ toll_df[1].distance # toll_df[2].distance
    /\ \E i \in DOMAIN toll_df :
          toll_df[i].distance = 10 * Unit /\ toll_df[i].car = 12 * Unit

\* both times of the row lie in the bracket
InBracket(row, time_range) ==
    /\ time_range.start <= row.start_time /\ row.start_time <= time_range.end
    /\ time_range.start <= row.end_time /\ row.end_time <= time_range.end

Factor(row, time_range) ==
    IF row.start_day \in {"Saturday", "Sunday"}
    THEN time_range.weekend_factor ELSE time_range.weekday_factor

\* C8: a row whose start_time and end_time both fall within one bracket has
\* its distance multiplied by exactly one factor, that bracket's weekday or
\* weekend factor.
C8_ExactlyOneFactor ==
    pc = "timed" =>
        \A i \in DOMAIN toll_df :
            (\E k \in DOMAIN time_ranges : InBracket(unrolled_df[i], time_ranges[k])) =>
                \E k \in DOMAIN time_ranges :
                    /\ InBracket(unrolled_df[i], time_ranges[k])
                    /\ 10 * toll_df[i].distance =
                          Factor(unrolled_df[i], time_ranges[k]) * unrolled_df[i].distance

\* C9: after calculate_toll_rate and calculate_time_based_toll_rates every
\* row that matched a bracket has each vehicle column equal to its
\* coefficient times the time-adjusted distance.
C9_FactorReachesTolls ==
    pc = "timed" =>
        \A i \in DOMAIN toll_df :
            (\E k \in DOMAIN time_ranges : mask(unrolled_df[i], time_ranges[k])) =>
                /\ 10 * toll_df[i].moto = 8 * toll_df[i].distance
                /\ 10 * toll_df[i].car = 12 * toll_df[i].distance
                /\ 10 * toll_df[i].rv = 15 * toll_df[i].distance
                /\ 10 * toll_df[i].bus = 22 * toll_df[i].distance
                /\ 10 * toll_df[i].truck = 36 * toll_df[i].distance

\* C10: a row whose time span is not contained in a single bracket matches
\* no bracket: calculate_time_based_toll_rates leaves its distance and every
\* other column unchanged.
C10_CrossingRowsUnchanged ==
    pc = "timed" =>
        \A i \in DOMAIN toll_df :
            (~ \E k \in DOMAIN time_ranges : InBracket(unrolled_df[i], time_ranges[k])) =>
                /\ \A c \in DOMAIN unrolled_df[i] : toll_df[i][c] = unrolled_df[i][c]
                /\ 10 * toll_df[i].moto = 8 * unrolled_df[i].distance
                /\ 10 * toll_df[i].car = 12 * unrolled_df[i].distance
                /\ 10 * toll_df[i].rv = 15 * unrolled_df[i].distance
                /\ 10 * toll_df[i].bus = 22 * unrolled_df[i].distance
                /\ 10 * toll_df[i].truck = 36 * unrolled_df[i].distance

====
